---- MODULE Spec2Model ----
(***************************************************************************)
(* A model of dlfetch: the Fetcher (bounded job queue, worker pool, the    *)
(* per-job download pipeline), the TaskMonitor (task registry, snapshot,   *)
(* single-slot event signal) and the part of the filesystem the pipeline   *)
(* touches (directory entries, inodes, open file descriptions).            *)
(***************************************************************************)
EXTENDS Integers, Sequences, FiniteSets, TLC

(* ------------------------------ bounds --------------------------------- *)

\* number of download requests the callers submit (IDs 1..MaxJobs, unique)
MaxJobs == 2

\* number of chunks io.Copy moves for one response body
BodyLen == 2

\* number of external faults (network, HTTP status, disk) injected in one run
MaxFaults == 1

\* number of calls of TaskMonitor.close in one run
MaxCloses == 3

\* capacity of the request queue (the constant defaultQueueSize, 100 in the
\* source), scaled to the number of requests
defaultQueueSize == 1

(* ------------------------- program configuration ----------------------- *)

\* WithMaxWorkers(n): the pool sizes the Fetcher is configured with
PoolSizes == {1, 2}

\* The Fetchers that are built. queueSize is the capacity of Fetcher.queue,
\* make(chan DownloadRequest, defaultQueueSize). Behind a single worker the
\* queue has one more slot, so that several requests wait in it in turn; in
\* front of two workers it is full with defaultQueueSize requests.
\* enableOverwrite is false unless WithEnableOverwrite(true).
Configs ==
    {[maxWorkers |-> 1, queueSize |-> defaultQueueSize + 1, enableOverwrite |-> FALSE],
     [maxWorkers |-> 2, queueSize |-> defaultQueueSize, enableOverwrite |-> FALSE],
     [maxWorkers |-> 1, queueSize |-> defaultQueueSize + 1, enableOverwrite |-> TRUE],
     [maxWorkers |-> 2, queueSize |-> defaultQueueSize, enableOverwrite |-> TRUE]}

\* capacity of TaskMonitor.eventSignal (make(chan struct{}, 1))
eventSignalCap == 1

Jobs == 1..MaxJobs

\* validateRequest: req.FullPath = filepath.Join(targetDir, req.Path, req.FileName).
\* Requests 1 and 2 name the same file, every later pair likewise.
FullPath(j) == (j + 1) \div 2

Paths == {FullPath(j) : j \in Jobs}

\* directory entries the pipeline uses: the final path and FullPath + ".tmp"
Final(p) == <<"final", p>>
Tmp(p) == <<"tmp", p>>
\* A request whose destination is on disk before the Fetcher is built (a file
\* kept from an earlier run); no request of Jobs resolves to its path.
ExistingRequest == 0
Requests == {ExistingRequest} \cup Jobs

\* the inode of that file: no download ever creates or opens it
ExistingFile == MaxJobs + 1

FileNames ==
    {Final(p) : p \in Paths} \cup {Tmp(p) : p \in Paths}
        \cup {Final(FullPath(ExistingRequest))}

\* the response body of request j: BodyLen chunks, distinct per request
Body(j) == [k \in 1..BodyLen |-> <<j, k>>]

(* Header values are sequences of one-character strings, so that trimming,
   searching and parsing are computed as strings.TrimSpace, strings.LastIndex
   and strconv.ParseInt compute them. *)
SpaceChars == {" ", "\t"}
digitValue ==
    [c \in {"0", "1", "2", "3", "4", "5", "6", "7", "8", "9"} |->
        CASE c = "0" -> 0 [] c = "1" -> 1 [] c = "2" -> 2 [] c = "3" -> 3
          [] c = "4" -> 4 [] c = "5" -> 5 [] c = "6" -> 6 [] c = "7" -> 7
          [] c = "8" -> 8 [] c = "9" -> 9]

RECURSIVE trimLeft(_)
trimLeft(s) ==
    IF s # <<>> /\ Head(s) \in SpaceChars THEN trimLeft(Tail(s)) ELSE s

RECURSIVE trimRight(_)
trimRight(s) ==
    IF s # <<>> /\ s[Len(s)] \in SpaceChars
    THEN trimRight(SubSeq(s, 1, Len(s) - 1))
    ELSE s

TrimSpace(s) == trimRight(trimLeft(s))

\* strings.LastIndex(s, c): the 0-based index of the last c in s, or -1
LastIndex_first(s, c) ==
    IF \E i \in 1..Len(s) : s[i] = c
    THEN (CHOOSE i \in 1..Len(s) :
            s[i] = c /\ \A k \in 1..(i - 1) : s[k] # c) - 1
    ELSE -1
LastIndex(s, c) ==
    IF \E i \in 1..Len(s) : s[i] = c
    THEN (CHOOSE i \in 1..Len(s) :
            s[i] = c /\ \A k \in (i + 1)..Len(s) : s[k] # c) - 1
    ELSE -1

RECURSIVE atoi(_)
atoi(ds) ==
    IF ds = <<>> THEN 0
    ELSE atoi(SubSeq(ds, 1, Len(ds) - 1)) * 10 + digitValue[ds[Len(ds)]]

\* strconv.ParseInt(s, 10, 64): an optional sign followed by one or more
\* decimal digits; anything else is a syntax error
ParseInt(s) ==
    LET signed == s # <<>> /\ s[1] \in {"+", "-"}
        ds == IF signed THEN Tail(s) ELSE s
    IN  IF ds = <<>> \/ \E i \in 1..Len(ds) : ds[i] \notin DOMAIN digitValue
        THEN [err |-> TRUE, n |-> 0]
        ELSE [err |-> FALSE,
              n |-> IF signed /\ s[1] = "-" THEN 0 - atoi(ds) ELSE atoi(ds)]

\* resolveFileSize(resp): resp.ContentLength, else the Content-Length header,
\* else the total of the Content-Range header, else -1
resolveFileSize(r) ==
    LET cl == r.ContentLengthHeader
        cr == r.ContentRange
        fromLength ==
            IF cl # <<>>
            THEN LET p == ParseInt(TrimSpace(cl))
                 IN  IF ~p.err /\ p.n > 0 THEN p.n ELSE 0
            ELSE 0
        idx == LastIndex(cr, "/")
        totalStr == TrimSpace(SubSeq(cr, idx + 2, Len(cr)))
        fromRange ==
            IF cr # <<>> /\ idx # -1 /\ totalStr # <<"*">>
            THEN LET p == ParseInt(totalStr)
                 IN  IF ~p.err /\ p.n > 0 THEN p.n ELSE 0
            ELSE 0
    IN  IF r.ContentLength > 0 THEN r.ContentLength
        ELSE IF fromLength > 0 THEN fromLength
        ELSE IF fromRange > 0 THEN fromRange
        ELSE -1

(* determineMimeType. MIME types are compared as whole strings; paths and
   file contents are sequences of one-character strings (bytes), so that
   filepath.Ext, mime.TypeByExtension and http.DetectContentType are computed
   on them. *)
octetStream == "application/octet-stream"

\* filepath.Ext(path): the suffix starting at the last dot of the last
\* element of the path, <<>> when that element has no dot
RECURSIVE extFrom(_, _)
extFrom(path, i) ==
    IF i < 1 \/ path[i] = "/" THEN <<>>
    ELSE IF path[i] = "." THEN SubSeq(path, i, Len(path))
    ELSE extFrom(path, i - 1)

Ext(path) == extFrom(path, Len(path))

upperLetters == <<"A", "B", "C", "D", "E", "F", "G", "H", "I", "J", "K", "L", "M",
                  "N", "O", "P", "Q", "R", "S", "T", "U", "V", "W", "X", "Y", "Z">>
lowerLetters == <<"a", "b", "c", "d", "e", "f", "g", "h", "i", "j", "k", "l", "m",
                  "n", "o", "p", "q", "r", "s", "t", "u", "v", "w", "x", "y", "z">>

ToLower(s) ==
    [i \in 1..Len(s) |->
        IF \E k \in 1..Len(upperLetters) : upperLetters[k] = s[i]
        THEN lowerLetters[CHOOSE k \in 1..Len(upperLetters) : upperLetters[k] = s[i]]
        ELSE s[i]]

\* the built-in table of package mime (the entries used here)
mimeTypes ==
    { [ext |-> <<".", "p", "n", "g">>, type |-> "image/png"],
      [ext |-> <<".", "p", "d", "f">>, type |-> "application/pdf"],
      [ext |-> <<".", "h", "t", "m", "l">>, type |-> "text/html; charset=utf-8"] }

lookupType(ext) ==
    IF \E e \in mimeTypes : e.ext = ext
    THEN (CHOOSE e \in mimeTypes : e.ext = ext).type
    ELSE ""

\* mime.TypeByExtension(ext): the extension as written, then lower-cased
TypeByExtension_caseSensitive(ext) == lookupType(ext)
TypeByExtension(ext) ==
    IF lookupType(ext) # "" THEN lookupType(ext) ELSE lookupType(ToLower(ext))

hasPrefix(s, pre) == Len(s) >= Len(pre) /\ SubSeq(s, 1, Len(pre)) = pre

\* http.DetectContentType(buf): signatures first, then text unless the
\* buffer holds a byte that text never contains; an empty buffer is text
DetectContentType(buf) ==
    IF hasPrefix(buf, <<"\\x89", "P", "N", "G">>) THEN "image/png"
    ELSE IF hasPrefix(buf, <<"%", "P", "D", "F", "-">>) THEN "application/pdf"
    ELSE IF \E i \in 1..Len(buf) : buf[i] = "\\x00" THEN octetStream
    ELSE "text/plain; charset=utf-8"

\* determineMimeType(req, respContentType, filePath); file is the content
\* os.Open(filePath) and file.Read find there (<<>>: empty or missing)
determineMimeType(req, respContentType, filePath, file) ==
    IF respContentType # "" /\ respContentType # octetStream
    THEN respContentType
    ELSE IF req.MimeType # "" THEN req.MimeType
    ELSE IF Ext(filePath) # <<>> /\ TypeByExtension(Ext(filePath)) # ""
    THEN TypeByExtension(Ext(filePath))
    ELSE DetectContentType(file)

\* the response to request j: it declares the size of its body in
\* resp.ContentLength, or declares nothing at all (here: every second request)
Response(j) ==
    [ContentLength |-> IF j % 2 = 1 THEN BodyLen ELSE -1,
     ContentLengthHeader |-> <<>>,
     ContentRange |-> <<>>]

\* a zero-filled gap left by a write beyond the end of a file
Hole == <<0, 0>>

StatusPending == "pending"
StatusInProgress == "in_progress"
StatusCompleted == "completed"
StatusFailed == "failed"

Terminal(s) == s \in {StatusCompleted, StatusFailed}

VARIABLES
    maxWorkers,     \* Fetcher.maxWorkers
    queueCap,       \* cap(Fetcher.queue)
    enableOverwrite,\* Fetcher.enableOverwrite
    started,        \* Start has been called
    stopChan,       \* "open" | "closed"
    stopReturned,   \* Stop has returned
    wg,             \* sync.WaitGroup counter
    queue,          \* Fetcher.queue: the buffered requests (by ID), FIFO
    epc,            \* per request: where its Enqueue call is
    wpc,            \* per worker: where the goroutine is
    cur,            \* per worker: the request it dequeued (0: none)
    written,        \* per worker: monitorWriter.written (= offset of its fd)
    total,          \* per worker: monitorWriter.total
    fd,             \* per worker: inode of the open temp file (0: none)
    err,            \* per worker: the error processDownload returned ("": nil)
    tasks,          \* TaskMonitor.tasks: ID -> DownloadTask
    eventSignal,    \* number of signals buffered in TaskMonitor.eventSignal
    eventClosed,    \* the eventSignal channel has been closed
    closes,         \* history: calls of TaskMonitor.close so far
    dir,            \* directory: file name -> inode (0: no such file)
    inode,          \* inode -> content (sequence of chunks)
    now,            \* the last reading of the clock (0: none yet)
    faults,         \* history: external faults injected so far
    sinceRecv,      \* history: mutations since the observer's last receive (0,1,2+)
    runningAtStop,  \* history: a pipeline was running when Stop was called
    callbacks,      \* history: per request, calls of onComplete / onError
    results,        \* EnqueueMany: the results appended so far
    panicked,       \* a goroutine panicked: the process is gone, nothing runs
    resp,           \* resolveFileSize: the response it is applied to
    size,           \* resolveFileSize: <<>> before the call, <<result>> after
    mimeArgs,       \* determineMimeType: the request, response and file it is applied to
    mimeType        \* determineMimeType: <<>> before the call, <<result>> after

vars == <<maxWorkers, queueCap, enableOverwrite, started, stopChan, stopReturned, wg,
          queue, epc, wpc, cur, written, total, fd, err, tasks, eventSignal,
          eventClosed, closes, dir, inode, now, faults, sinceRecv, runningAtStop,
          callbacks, results, panicked, resp, size, mimeArgs, mimeType>>

sizeVars == <<resp, size>>
mimeVars == <<mimeArgs, mimeType>>
configVars == <<maxWorkers, queueCap, enableOverwrite, sizeVars, mimeVars>>
fetcherVars == <<configVars, started, stopChan, stopReturned, wg>>
workerVars == <<wpc, cur, written, total, fd, err>>
monitorVars == <<tasks, eventSignal, eventClosed, closes, sinceRecv, panicked>>
fsVars == <<dir, inode>>

(* ------------------------------ helpers -------------------------------- *)

\* checkFileExists: os.Stat finds the name
checkFileExists(name) == dir[name] # 0

Max(a, b) == IF a >= b THEN a ELSE b

\* a write of one chunk at offset off (0-based) of a file holding content c
WriteAt(c, off, v) ==
    [i \in 1..Max(Len(c), off + 1) |->
        IF i = off + 1 THEN v ELSE IF i <= Len(c) THEN c[i] ELSE Hole]

\* inodes still reachable through a name or an open file description
Live(d, f) == {d[n] : n \in FileNames} \cup {f[w] : w \in DOMAIN f}

\* the storage of unreachable inodes is released
Reclaim(content, d, f) ==
    [i \in Jobs |-> IF i \in Live(d, f) THEN content[i] ELSE <<>>]

(* ----------------------------- TaskMonitor ----------------------------- *)

\* signalEvent: select { case m.eventSignal <- struct{}{}: default: }
signalEvent_always(buffered) == buffered + 1
signalEvent(buffered) ==
    IF buffered < eventSignalCap THEN buffered + 1 ELSE buffered

\* add: m.tasks[req.ID] = &DownloadTask{ID, FileName, FilePath, Status: pending,
\* EnqueuedAt: time.Now()}; the other fields keep their zero values
add_noStatus(t, id, at) ==
    (id :> [ID |-> id, FilePath |-> FullPath(id), Status |-> "",
            TotalBytes |-> 0, DoneBytes |-> 0, Error |-> "",
            EnqueuedAt |-> at]) @@ t
add(t, id, at) ==
    (id :> [ID |-> id, FilePath |-> FullPath(id), Status |-> StatusPending,
            TotalBytes |-> 0, DoneBytes |-> 0, Error |-> "",
            EnqueuedAt |-> at]) @@ t

\* markAsStarted (called by processDownload; its body is not in the sources):
\* the task, if registered, becomes in_progress
markAsStarted(t, id) ==
    IF id \in DOMAIN t THEN [t EXCEPT ![id].Status = StatusInProgress] ELSE t

\* update: progress of a registered task; an unknown ID changes nothing
update_upsert(t, id, done, tot) ==
    IF id \in DOMAIN t
    THEN [t EXCEPT ![id].DoneBytes = done, ![id].TotalBytes = tot,
                   ![id].Status = StatusInProgress]
    ELSE (id :> [ID |-> id, FilePath |-> FullPath(id),
                 Status |-> StatusInProgress, TotalBytes |-> tot,
                 DoneBytes |-> done, Error |-> "", EnqueuedAt |-> 0]) @@ t
update(t, id, done, tot) ==
    IF id \in DOMAIN t
    THEN [t EXCEPT ![id].DoneBytes = done, ![id].TotalBytes = tot,
                   ![id].Status = StatusInProgress]
    ELSE t

\* markAsCompleted: DoneBytes = TotalBytes only when TotalBytes > 0
markAsCompleted_alwaysFill(t, id) ==
    IF id \in DOMAIN t
    THEN [t EXCEPT ![id].DoneBytes = t[id].TotalBytes,
                   ![id].Status = StatusCompleted]
    ELSE t
markAsCompleted(t, id) ==
    IF id \in DOMAIN t
    THEN [t EXCEPT ![id].DoneBytes =
                       IF t[id].TotalBytes > 0 THEN t[id].TotalBytes ELSE @,
                   ![id].Status = StatusCompleted]
    ELSE t

\* markAsFailed: Status = failed, Error = err.Error()
markAsFailed_noMessage(t, id, e) ==
    IF id \in DOMAIN t
    THEN [t EXCEPT ![id].Status = StatusFailed]
    ELSE t
markAsFailed(t, id, e) ==
    IF id \in DOMAIN t
    THEN [t EXCEPT ![id].Status = StatusFailed, ![id].Error = e]
    ELSE t

\* The tail every mutating method shares: under m.mu the registry takes its new
\* value and signalEvent posts; a send on a closed channel panics.
Mutate(newTasks) ==
    /\ tasks' = newTasks
    /\ sinceRecv' = IF sinceRecv < 2 THEN sinceRecv + 1 ELSE 2
    /\ eventClosed' = eventClosed
    /\ closes' = closes
    /\ IF eventClosed
       THEN panicked' = TRUE /\ eventSignal' = eventSignal
       ELSE panicked' = panicked /\ eventSignal' = signalEvent(eventSignal)

\* close: case <-m.eventSignal of the select is ready when a signal is
\* buffered and when the channel is closed
closeRecvReady_bufferedOnly(buffered, closed) == buffered > 0
closeRecvReady(buffered, closed) == buffered > 0 \/ closed

\* close: select { case <-m.eventSignal: (nothing) default: close(m.eventSignal) }
\* A buffered signal makes the receive case ready: it is consumed and the
\* channel stays open. A closed channel makes it ready too: nothing happens.
\* Otherwise the channel is closed; close of a closed channel panics.
MonitorClose ==
    /\ closes' = closes + 1
    /\ IF closeRecvReady(eventSignal, eventClosed)
       THEN /\ eventSignal' = IF eventSignal > 0 THEN eventSignal - 1 ELSE eventSignal
            /\ eventClosed' = eventClosed
            /\ panicked' = panicked
       ELSE /\ eventSignal' = eventSignal
            /\ eventClosed' = TRUE
            /\ panicked' = (panicked \/ eventClosed)
    /\ UNCHANGED <<tasks, sinceRecv>>

\* for _, t := range m.tasks: Go visits the map in an unspecified order; every
\* order of the registered IDs can occur
IterOrdersOf ==
    [S \in SUBSET Jobs |->
        {o \in [1..Cardinality(S) -> S] :
            \A a, b \in 1..Cardinality(S) : a # b => o[a] # o[b]}]
IterOrders(t) == IterOrdersOf[DOMAIN t]

\* time.Time.Before
Before_reversed(a, b) == a > b
Before(a, b) == a < b

\* sort.Slice on fewer than 12 elements is an insertion sort: an element moves
\* left while less(it, its left neighbour)
RECURSIVE insertionStep(_, _, _)
insertionStep(t, s, x) ==
    IF s = <<>> THEN <<x>>
    ELSE IF Before(t[x].EnqueuedAt, t[s[Len(s)]].EnqueuedAt)
         THEN Append(insertionStep(t, SubSeq(s, 1, Len(s) - 1), x), s[Len(s)])
         ELSE Append(s, x)

RECURSIVE sortSlice(_, _)
sortSlice(t, s) ==
    IF s = <<>> THEN <<>>
    ELSE insertionStep(t, sortSlice(t, SubSeq(s, 1, Len(s) - 1)), s[Len(s)])

\* the counter one case of the switch increments
CountStatus(t, iter, st) ==
    Len(SelectSeq(iter, LAMBDA id : t[id].Status = st))

\* queuePositions[pt.id] = pos + 1; a lookup of an absent key yields 0
queuePositions_zeroBased(sorted, id) ==
    IF \E k \in 1..Len(sorted) : sorted[k] = id
    THEN (CHOOSE k \in 1..Len(sorted) : sorted[k] = id) - 1
    ELSE 0
queuePositions(sorted, id) ==
    IF \E k \in 1..Len(sorted) : sorted[k] = id
    THEN CHOOSE k \in 1..Len(sorted) : sorted[k] = id
    ELSE 0

\* GetSnapshot over the registry t, visited in the order iter
GetSnapshot(t, iter) ==
    LET pendingTasks == SelectSeq(iter, LAMBDA id : t[id].Status = StatusPending)
        sorted == sortSlice(t, pendingTasks)
    IN  [Tasks |->
            [i \in 1..Len(iter) |->
                [ID |-> t[iter[i]].ID,
                 Status |-> t[iter[i]].Status,
                 TotalBytes |-> t[iter[i]].TotalBytes,
                 DoneBytes |-> t[iter[i]].DoneBytes,
                 Error |-> t[iter[i]].Error,
                 EnqueuedAt |-> t[iter[i]].EnqueuedAt,
                 QueuePosition |->
                    IF t[iter[i]].Status = StatusPending
                    THEN queuePositions(sorted, t[iter[i]].ID)
                    ELSE 0]],
         Count |->
            [Total |-> Len(iter),
             Pending |-> CountStatus(t, iter, StatusPending),
             Completed |-> CountStatus(t, iter, StatusCompleted),
             Failed |-> CountStatus(t, iter, StatusFailed),
             InProgress |-> CountStatus(t, iter, StatusInProgress)]]

\* every snapshot GetSnapshot can return in the current state
Snapshots == {GetSnapshot(tasks, iter) : iter \in IterOrders(tasks)}

(* ------------------------------- Fetcher ------------------------------- *)

\* Start: for i := 0; i < f.maxWorkers; i++ { f.wg.Add(1); go f.worker() }
StartLoop_offByOne(n) == 1..(n + 1)
StartLoop(n) == 1..n

\* the worker goroutines that exist
Workers == DOMAIN wpc

\* the numbers Start can give to the goroutines it spawns
WorkerIds == UNION {StartLoop(n) : n \in PoolSizes}

InitEngine ==
    /\ \E c \in Configs :
          /\ maxWorkers = c.maxWorkers
          /\ queueCap = c.queueSize
          /\ enableOverwrite = c.enableOverwrite
    /\ started = FALSE
    /\ stopChan = "open"
    /\ stopReturned = FALSE
    /\ wg = 0
    /\ queue = <<>>
    /\ epc = [j \in Requests |-> "new"]
    /\ wpc = <<>>
    /\ cur = <<>>
    /\ written = <<>>
    /\ total = <<>>
    /\ fd = <<>>
    /\ err = <<>>
    /\ tasks = <<>>
    /\ eventSignal = 0
    /\ eventClosed = FALSE
    /\ closes = 0
    /\ dir = [n \in FileNames |->
                IF n = Final(FullPath(ExistingRequest)) THEN ExistingFile ELSE 0]
    /\ inode = [i \in Jobs |-> <<>>]
    /\ now = 0
    /\ faults = 0
    /\ sinceRecv = 0
    /\ runningAtStop = FALSE
    /\ callbacks = [j \in Jobs |-> [onComplete |-> 0, onError |-> 0, err |-> ""]]
    /\ results = <<>>
    /\ panicked = FALSE

\* the state after New; no call of resolveFileSize is being observed
NoSizeCall ==
    /\ resp = Response(ExistingRequest)
    /\ size = <<>>

NoMimeCall ==
    /\ mimeArgs = [req |-> [MimeType |-> "", FullPath |-> <<>>],
                   respContentType |-> "", file |-> <<>>]
    /\ mimeType = <<>>

Init ==
    /\ InitEngine
    /\ NoSizeCall
    /\ NoMimeCall

\* validateRequest: the error it returns ("": nil). The check of the file at
\* FullPath does not look at enableOverwrite.
validateRequest(j) ==
    IF checkFileExists(Final(FullPath(j))) THEN "file already exists" ELSE ""

\* the DownloadRequest of request j once validateRequest has resolved it:
\* req.FullPath is the name of the file at the final path
resolvedRequest(j) == [ID |-> j, FullPath |-> Final(FullPath(j))]

\* DownloadRequest{}: the zero value (ID 0, empty strings)
zeroRequest == [ID |-> 0, FullPath |-> <<>>]

\* Enqueue: the Request field of the EnqueueResult it returns. Both composite
\* literals, EnqueueResult{Queued: false, Error: err} and EnqueueResult{Queued:
\* true, Error: nil}, leave the field out: it holds the zero value.
resultRequest(j) == zeroRequest

\* Enqueue: if err := f.validateRequest(&req); err != nil { return ... }
errIsNil_always(e) == TRUE
errIsNil(e) == e = ""

\* Enqueue, first half, for a request that passes validateRequest: monitor.add
\* registers it with EnqueuedAt = at. The callers' IDs are numbered in the
\* order in which their requests reach this step.
Register(j, at) ==
    /\ ~panicked
    /\ epc[j] = "new"
    /\ \A i \in Jobs : i < j => epc[i] # "new"
    /\ errIsNil(validateRequest(j))
    /\ now' = at
    /\ Mutate(add(tasks, j, at))
    /\ epc' = [epc EXCEPT ![j] = IF panicked' THEN "panicked" ELSE "registered"]
    /\ UNCHANGED <<fetcherVars, queue, workerVars, fsVars, faults, runningAtStop,
                   callbacks>>

\* Enqueue when validateRequest returns an error: EnqueueResult{Queued: false,
\* Error: err} is returned, nothing is registered or queued
Reject(j) ==
    /\ ~panicked
    /\ epc[j] = "new"
    /\ \A i \in Jobs : i < j => epc[i] # "new"
    /\ ~errIsNil(validateRequest(j))
    /\ epc' = [epc EXCEPT ![j] = "rejected"]
    /\ UNCHANGED <<fetcherVars, queue, workerVars, monitorVars, fsVars, now,
                   faults, runningAtStop, callbacks>>

\* f.queue <- req: a send on a buffered channel goes through when the buffer
\* has a free slot (no receiver waits while requests are buffered)
sendReady_always(q, capacity) == TRUE
sendReady(q, capacity) == Len(q) < capacity

\* Enqueue, second half: f.queue <- req blocks while the queue is full, then
\* EnqueueResult{Queued: true, Error: nil} is returned
Push(j) ==
    /\ ~panicked
    /\ epc[j] = "registered"
    /\ sendReady(queue, queueCap)
    /\ queue' = Append(queue, j)
    /\ epc' = [epc EXCEPT ![j] = "queued"]
    /\ UNCHANGED <<fetcherVars, workerVars, monitorVars, fsVars, now, faults,
                   runningAtStop, callbacks>>

\* Enqueue called on its own; time.Now() in add reads a later instant than the
\* previous reading
EnqueueAdd(j) == Register(j, now + 1) /\ UNCHANGED results

\* time.Now() in add reads the same instant as the previous reading (the clock
\* is no finer than its resolution)
EnqueueAddSameInstant(j) == now > 0 /\ Register(j, now) /\ UNCHANGED results

EnqueueReject(j) == Reject(j) /\ UNCHANGED results

EnqueuePush(j) == Push(j) /\ UNCHANGED results

\* EnqueueMany(reqs), reqs being the request whose destination exists followed
\* by the requests 1..MaxJobs in this order:
\* for _, req := range reqs { result := f.Enqueue(req); results = append(results,
\* result) }. The request in turn is the one after the results gathered so far.
reqs == [i \in 1..(MaxJobs + 1) |-> i - 1]

appendResult_prepend(rs, r) == <<r>> \o rs
appendResult(rs, r) == Append(rs, r)

\* the range loop has not reached the end of reqs
InLoop == Len(results) < Len(reqs)

EnqueueManyAdd ==
    /\ InLoop
    /\ Register(reqs[Len(results) + 1], now + 1)
    /\ UNCHANGED results

EnqueueManyReject ==
    /\ InLoop
    /\ Reject(reqs[Len(results) + 1])
    /\ results' = appendResult(results,
                       [Request |-> resultRequest(reqs[Len(results) + 1]),
                        Queued |-> FALSE,
                        Error |-> validateRequest(reqs[Len(results) + 1])])

EnqueueManyPush ==
    /\ InLoop
    /\ Push(reqs[Len(results) + 1])
    /\ results' = appendResult(results,
                       [Request |-> resultRequest(reqs[Len(results) + 1]),
                        Queued |-> TRUE,
                        Error |-> ""])

\* Start, called once: f.wg.Add(1) and go f.worker() for every iteration of
\* the loop
Start ==
    /\ ~panicked
    /\ ~started
    /\ started' = TRUE
    /\ wg' = wg + Cardinality(StartLoop(maxWorkers))
    /\ wpc' = [w \in StartLoop(maxWorkers) |-> "select"]
    /\ cur' = [w \in StartLoop(maxWorkers) |-> 0]
    /\ written' = [w \in StartLoop(maxWorkers) |-> 0]
    /\ total' = [w \in StartLoop(maxWorkers) |-> 0]
    /\ fd' = [w \in StartLoop(maxWorkers) |-> 0]
    /\ err' = [w \in StartLoop(maxWorkers) |-> ""]
    /\ UNCHANGED <<configVars, stopChan, stopReturned, queue, epc, monitorVars,
                   fsVars, now, faults, runningAtStop, callbacks, results>>

\* Stop, first statement: close(f.stopChan). Stop is called at most once, on a
\* running Fetcher (created, running, stopped).
StopSignal ==
    /\ ~panicked
    /\ started
    /\ stopChan = "open"
    /\ stopChan' = "closed"
    /\ runningAtStop' = (\E w \in Workers : cur[w] # 0)
    /\ UNCHANGED <<configVars, started, stopReturned, wg, queue, epc, workerVars,
                   monitorVars, fsVars, now, faults, callbacks, results>>

\* f.wg.Wait() returns when the counter is zero
wgWait_noWait == TRUE
wgWait == wg = 0

\* Stop, the rest: f.wg.Wait(); f.monitor.close(); return
StopWait ==
    /\ ~panicked
    /\ stopChan = "closed"
    /\ ~stopReturned
    /\ wgWait
    /\ MonitorClose
    /\ stopReturned' = TRUE
    /\ UNCHANGED <<configVars, started, stopChan, wg, queue, epc, workerVars, fsVars, now,
                   faults, runningAtStop, callbacks, results>>

\* TaskMonitor.close called again after Stop has called it (Stop itself is
\* called once)
CloseAgain ==
    /\ ~panicked
    /\ closes >= 1
    /\ closes < MaxCloses
    /\ MonitorClose
    /\ UNCHANGED <<fetcherVars, queue, epc, workerVars, fsVars, now, faults,
                   runningAtStop, callbacks, results>>

\* TaskMonitor.update called with an ID that was never registered
UpdateUnknown(id, done, tot) ==
    /\ ~panicked
    /\ id \notin DOMAIN tasks
    /\ Mutate(update(tasks, id, done, tot))
    /\ UNCHANGED <<fetcherVars, queue, epc, workerVars, fsVars, now, faults,
                   runningAtStop, callbacks, results>>

\* the observer: <-monitor.EventSignal() completes on a buffered signal or on a
\* closed channel
ObserverReceive ==
    /\ ~panicked
    /\ eventSignal > 0 \/ eventClosed
    /\ eventSignal' = IF eventSignal > 0 THEN eventSignal - 1 ELSE eventSignal
    /\ sinceRecv' = 0
    /\ UNCHANGED <<fetcherVars, queue, epc, workerVars, tasks, eventClosed, closes,
                   panicked, fsVars, now, faults, runningAtStop, callbacks, results>>

(* ------------------------------- worker -------------------------------- *)

\* req := <-f.queue: a buffered channel hands out the element that has been in
\* it longest; the position in the buffer of the element received
recvIndex_newest(q) == Len(q)
recvIndex(q) == 1

\* worker: select { case req := <-f.queue: ... }. Go picks among the ready
\* cases of a select; a closed stopChan does not disable this one. The workers
\* waiting in the select are in the same local state, so which of them the
\* runtime wakes makes no difference: it is taken to be the lowest-numbered.
WorkerDequeue(w) ==
    /\ ~panicked
    /\ w \in Workers
    /\ wpc[w] = "select"
    /\ \A v \in Workers : v < w => wpc[v] # "select"
    /\ queue # <<>>
    /\ cur' = [cur EXCEPT ![w] = queue[recvIndex(queue)]]
    /\ queue' = [i \in 1..(Len(queue) - 1) |->
                    IF i < recvIndex(queue) THEN queue[i] ELSE queue[i + 1]]
    /\ wpc' = [wpc EXCEPT ![w] = "process"]
    /\ UNCHANGED <<fetcherVars, epc, written, total, fd, err, monitorVars, fsVars,
                   now, faults, runningAtStop, callbacks, results>>

\* worker: case <-f.stopChan: return, and the deferred f.wg.Done()
WorkerStop(w) ==
    /\ ~panicked
    /\ w \in Workers
    /\ wpc[w] = "select"
    /\ \A v \in Workers : v < w => wpc[v] # "select"
    /\ stopChan = "closed"
    /\ wpc' = [wpc EXCEPT ![w] = "exited"]
    /\ wg' = wg - 1
    /\ UNCHANGED <<configVars, started, stopChan, stopReturned, queue, epc, cur, written,
                   total, fd, err, monitorVars, fsVars, now, faults,
                   runningAtStop, callbacks, results>>

\* processDownload, every failure exit: f.monitor.markAsFailed(req.ID, err) and
\* return (the deferred out.Close() releases the file description); t is the
\* registry the step found, d the directory it leaves, next the statement the
\* worker runs next
Fail(w, t, e, d, next, injected) ==
    /\ ~panicked
    /\ injected => faults < MaxFaults
    /\ faults' = IF injected THEN faults + 1 ELSE faults
    /\ Mutate(markAsFailed(t, cur[w], e))
    /\ err' = [err EXCEPT ![w] = e]
    /\ wpc' = [wpc EXCEPT ![w] = next]
    /\ fd' = [fd EXCEPT ![w] = 0]
    /\ written' = [written EXCEPT ![w] = 0]
    /\ total' = [total EXCEPT ![w] = 0]
    /\ dir' = d
    /\ inode' = Reclaim(inode, d, [fd EXCEPT ![w] = 0])
    /\ UNCHANGED <<fetcherVars, queue, epc, cur, now, runningAtStop, callbacks, results>>

\* where the worker continues after the "file already exists" failure:
\* return DownloadResult{}, err hands the error to the worker loop
conflictNext_noReturn == "get"
conflictNext == "onError"

\* processDownload: markAsStarted, the existence re-check, ensureDir succeeds
Check(w) ==
    /\ ~panicked
    /\ w \in Workers
    /\ wpc[w] = "process"
    /\ LET t == markAsStarted(tasks, cur[w])
       IN  IF ~enableOverwrite /\ checkFileExists(Final(FullPath(cur[w])))
           THEN Fail(w, t, "file already exists", dir, conflictNext, FALSE)
           ELSE /\ Mutate(t)
                /\ wpc' = [wpc EXCEPT ![w] = "get"]
                /\ UNCHANGED <<fetcherVars, queue, epc, cur, written, total,
                               fd, err, fsVars, now, faults, runningAtStop,
                               callbacks, results>>

\* processDownload: markAsStarted, no file at FullPath, ensureDir fails
MkdirFail(w) ==
    /\ w \in Workers
    /\ wpc[w] = "process"
    /\ enableOverwrite \/ ~checkFileExists(Final(FullPath(cur[w])))
    /\ Fail(w, markAsStarted(tasks, cur[w]), "mkdir", dir, "onError", TRUE)

\* processDownload: requestClient.Get fails, or the status is not 200, or
\* os.Create(tmpPath) fails
GetFail(w) ==
    /\ w \in Workers
    /\ wpc[w] = "get"
    /\ \E e \in {"get", "create"} : Fail(w, tasks, e, dir, "onError", TRUE)

\* the status codes a server answers with: 200, another 2xx code, an error
StatusOK == 200
StatusCodes == {StatusOK, 204, 404}

\* fmt.Errorf("failed to download file: %s, status code: %d", ...)
statusMessages == [code \in StatusCodes |-> "status code: " \o ToString(code)]
statusError(code) == statusMessages[code]

\* resp.StatusCode != http.StatusOK is the only test the pipeline makes
statusOK_success(code) == code \in 200..299
statusOK(code) == code = StatusOK

\* processDownload: Get returned a response whose status is not 200
GetStatus(w, code) ==
    /\ w \in Workers
    /\ wpc[w] = "get"
    /\ ~statusOK(code)
    /\ Fail(w, tasks, statusError(code), dir, "onError", TRUE)

\* processDownload: Get answers 200 and os.Create(tmpPath) opens the temp file:
\* a new inode, or the existing one truncated; the monitorWriter starts with
\* total = resolveFileSize(resp) (the declared size, or -1)
GetCreate(w) ==
    /\ ~panicked
    /\ w \in Workers
    /\ wpc[w] = "get"
    /\ \E code \in StatusCodes : statusOK(code)
    /\ LET tmp == Tmp(FullPath(cur[w]))
           ino == IF dir[tmp] # 0 THEN dir[tmp] ELSE cur[w]
       IN  /\ dir' = [dir EXCEPT ![tmp] = ino]
           /\ inode' = [inode EXCEPT ![ino] = <<>>]
           /\ fd' = [fd EXCEPT ![w] = ino]
    /\ total' = [total EXCEPT ![w] = resolveFileSize(Response(cur[w]))]
    /\ written' = [written EXCEPT ![w] = 0]
    /\ wpc' = [wpc EXCEPT ![w] = "copy"]
    /\ UNCHANGED <<fetcherVars, queue, epc, cur, err, monitorVars, now, faults,
                   runningAtStop, callbacks, results>>

\* io.Copy, one chunk: the TeeReader hands it to monitorWriter.Write
\* (monitor.update) and io.Copy writes it at the offset of the file description
CopyChunk(w) ==
    /\ ~panicked
    /\ w \in Workers
    /\ wpc[w] = "copy"
    /\ Mutate(update(tasks, cur[w], written[w] + 1, total[w]))
    /\ inode' = [inode EXCEPT ![fd[w]] =
                    WriteAt(@, written[w], Body(cur[w])[written[w] + 1])]
    /\ written' = [written EXCEPT ![w] = @ + 1]
    /\ wpc' = [wpc EXCEPT ![w] = IF written[w] + 1 = BodyLen THEN "commit" ELSE "copy"]
    /\ UNCHANGED <<fetcherVars, queue, epc, cur, total, fd, err, dir, now, faults,
                   runningAtStop, callbacks, results>>

\* _ = os.Remove(tmpPath): the directory without the entry of the temp name
removeTmp_keep(d, p) == d
removeTmp(d, p) == [d EXCEPT ![Tmp(p)] = 0]

\* io.Copy returns an error: os.Remove(tmpPath), markAsFailed, return
CopyFail(w) ==
    /\ w \in Workers
    /\ wpc[w] = "copy"
    /\ Fail(w, tasks, "copy", removeTmp(dir, FullPath(cur[w])), "onError", TRUE)

\* out.Close() fails, or os.Rename(tmpPath, req.FullPath) fails for a reason of
\* the filesystem: markAsFailed, return; the temp file stays
CommitFail(w) ==
    /\ w \in Workers
    /\ wpc[w] = "commit"
    /\ \E e \in {"close", "rename"} : Fail(w, tasks, e, dir, "onError", TRUE)

\* os.Rename(tmpPath, req.FullPath) when tmpPath is gone: markAsFailed, return
RenameMissing(w) ==
    /\ w \in Workers
    /\ wpc[w] = "commit"
    /\ dir[Tmp(FullPath(cur[w]))] = 0
    /\ Fail(w, tasks, "rename", dir, "onError", FALSE)

\* out.Close(); os.Rename(tmpPath, req.FullPath): the final name takes the
\* inode the temp name has; then f.monitor.markAsCompleted(req.ID) and return
Commit(w) ==
    /\ ~panicked
    /\ w \in Workers
    /\ wpc[w] = "commit"
    /\ LET tmp == Tmp(FullPath(cur[w]))
           final == Final(FullPath(cur[w]))
           d == [dir EXCEPT ![final] = dir[tmp], ![tmp] = 0]
       IN  /\ dir[tmp] # 0
           /\ dir' = d
           /\ fd' = [fd EXCEPT ![w] = 0]
           /\ inode' = Reclaim(inode, d, [fd EXCEPT ![w] = 0])
    /\ Mutate(markAsCompleted(tasks, cur[w]))
    /\ wpc' = [wpc EXCEPT ![w] = "onComplete"]
    /\ written' = [written EXCEPT ![w] = 0]
    /\ total' = [total EXCEPT ![w] = 0]
    /\ UNCHANGED <<fetcherVars, queue, epc, cur, err, now, faults,
                   runningAtStop, callbacks, results>>

\* where the worker goes after the completion callback: the next iteration of
\* the for loop
afterComplete_return == "exited"
afterComplete == "select"

\* worker: f.onComplete(result), back to the select
OnComplete(w) ==
    /\ ~panicked
    /\ w \in Workers
    /\ wpc[w] = "onComplete"
    /\ callbacks' = [callbacks EXCEPT ![cur[w]].onComplete = @ + 1]
    /\ cur' = [cur EXCEPT ![w] = 0]
    /\ wpc' = [wpc EXCEPT ![w] = afterComplete]
    /\ UNCHANGED <<fetcherVars, queue, epc, written, total, fd, err, monitorVars,
                   fsVars, now, faults, runningAtStop, results>>

\* where the worker goes after the error callback: continue
afterError_return == "exited"
afterError == "select"

\* worker: f.onError(req, err); continue
OnError(w) ==
    /\ ~panicked
    /\ w \in Workers
    /\ wpc[w] = "onError"
    /\ callbacks' = [callbacks EXCEPT ![cur[w]].onError = @ + 1,
                                      ![cur[w]].err = err[w]]
    /\ cur' = [cur EXCEPT ![w] = 0]
    /\ err' = [err EXCEPT ![w] = ""]
    /\ wpc' = [wpc EXCEPT ![w] = afterError]
    /\ UNCHANGED <<fetcherVars, queue, epc, written, total, fd, monitorVars,
                   fsVars, now, faults, runningAtStop, results>>

\* processDownload and the callback, the steps that no external fault causes
Process(w) ==
    \/ Check(w)
    \/ GetCreate(w)
    \/ CopyChunk(w)
    \/ RenameMissing(w)
    \/ Commit(w)
    \/ OnComplete(w)
    \/ OnError(w)

\* the worker goroutine
Worker(w) ==
    \/ WorkerDequeue(w)
    \/ WorkerStop(w)
    \/ Process(w)

\* a step of a worker that an external fault (network, HTTP status, disk) causes
Fault(w) ==
    \/ MkdirFail(w)
    \/ GetFail(w)
    \/ \E code \in StatusCodes : GetStatus(w, code)
    \/ CopyFail(w)
    \/ CommitFail(w)

\* the callers: Enqueue, Start, Stop
Caller ==
    \/ \E j \in Jobs : EnqueueAdd(j)
    \/ \E j \in Jobs : EnqueueReject(j)
    \/ \E j \in Jobs : EnqueuePush(j)
    \/ Start

Stopping ==
    \/ StopSignal
    \/ StopWait

\* New with no option altering enableOverwrite
InitDefault == Init /\ ~enableOverwrite

(* The whole program: callers, workers, faults, Stop, an observer of the event
   signal, and a clock that may read the same instant twice. *)
Next ==
    \/ Caller
    \/ \E j \in Jobs : EnqueueAddSameInstant(j)
    \/ Stopping
    \/ ObserverReceive
    \/ \E w \in WorkerIds : Worker(w)
    \/ \E w \in WorkerIds : Fault(w)

Spec == Init /\ [][Next]_vars

(* The program on a clock whose successive readings differ: the order of the
   EnqueuedAt stamps is the order of registration. *)
NextEngine ==
    \/ Caller
    \/ Stopping
    \/ ObserverReceive
    \/ \E w \in WorkerIds : Worker(w)
    \/ \E w \in WorkerIds : Fault(w)

SpecEngine == InitDefault /\ [][NextEngine]_vars

(* The program while it runs and nobody receives from the event signal: the
   registry and its snapshots under every clock. *)
NextMonitor ==
    \/ Caller
    \/ \E j \in Jobs : EnqueueAddSameInstant(j)
    \/ \E w \in WorkerIds : WorkerDequeue(w)
    \/ \E w \in WorkerIds : Process(w)
    \/ \E w \in WorkerIds : Fault(w)

SpecMonitor == InitDefault /\ [][NextMonitor]_vars

(* The program without faults and without an observer, with further calls of
   TaskMonitor.close after Stop: Enqueue calls made after Stop post signals
   in between, so the later calls meet the channel open and empty, open with a
   signal buffered, and closed. *)
NextShutdown ==
    \/ Caller
    \/ Stopping
    \/ CloseAgain
    \/ \E w \in WorkerIds : Worker(w)

SpecShutdown == InitDefault /\ [][NextShutdown]_vars

(* One goroutine calls Start and EnqueueMany over the requests 1..MaxJobs:
   each Enqueue returns before the next one is called. *)
NextMany ==
    \/ Start
    \/ EnqueueManyAdd
    \/ EnqueueManyReject
    \/ EnqueueManyPush
    \/ \E w \in WorkerIds : WorkerDequeue(w)
    \/ \E w \in WorkerIds : Process(w)
    \/ \E w \in WorkerIds : Fault(w)

SpecMany == InitDefault /\ [][NextMany]_vars

(* resolveFileSize on its own: the responses it is applied to. Each header
   value is listed with the size it stands for (0: none), written down by
   hand from the header's meaning and not computed by the operators above. *)
ContentLengthFields == {-1, 0, BodyLen}

ContentLengthHeaders ==
    { [text |-> <<>>, value |-> 0],                        \* absent
      [text |-> <<"0">>, value |-> 0],
      [text |-> <<"1", "2">>, value |-> 12],
      [text |-> <<" ", "1", "2", "\t">>, value |-> 12],    \* padded
      [text |-> <<"1", "x">>, value |-> 0],                \* not a number
      [text |-> <<"1", " ", "2">>, value |-> 0],           \* not a number
      [text |-> <<"-", "5">>, value |-> 0],                \* negative
      [text |-> <<"+", "5">>, value |-> 5] }               \* explicit sign

ContentRanges ==
    { [text |-> <<>>, value |-> 0],                        \* absent
      [text |-> <<"b", "y", "t", "e", "s", " ", "0", "-", "6", "/", "7">>,
       value |-> 7],
      [text |-> <<"b", "y", "t", "e", "s", " ", "*", "/", "7">>, value |-> 7],
      [text |-> <<"b", "y", "t", "e", "s", " ", "0", "-", "6", "/", "*">>,
       value |-> 0],
      [text |-> <<"b", "y", "t", "e", "s", " ", "0", "-", "6", "/", " ", "7", " ">>,
       value |-> 7],
      [text |-> <<"b", "y", "t", "e", "s", " ", "0", "-", "6">>, value |-> 0],
      [text |-> <<"b", "y", "t", "e", "s", " ", "0", "-", "0", "/", "0">>,
       value |-> 0],
      [text |-> <<"b", "y", "t", "e", "s", " ", "0", "-", "6", "/">>,
       value |-> 0],
      [text |-> <<"b", "y", "t", "e", "s", " ", "0", "-", "6", "/", "7", "x">>,
       value |-> 0],
      [text |-> <<"4", "/", "0", "-", "6", "/", "7">>, value |-> 7] }

Responses ==
    { [ContentLength |-> n, ContentLengthHeader |-> cl.text,
       ContentRange |-> cr.text] :
        n \in ContentLengthFields, cl \in ContentLengthHeaders,
        cr \in ContentRanges }

InitSize ==
    /\ InitEngine
    /\ maxWorkers = 1
    /\ ~enableOverwrite
    /\ resp \in Responses
    /\ size = <<>>
    /\ NoMimeCall

\* one call of resolveFileSize(resp)
ResolveFileSize ==
    /\ size = <<>>
    /\ size' = <<resolveFileSize(resp)>>
    /\ UNCHANGED <<maxWorkers, queueCap, enableOverwrite, resp, mimeVars,
                   started, stopChan, stopReturned, wg, queue, epc, workerVars,
                   monitorVars, fsVars, now, faults, runningAtStop, callbacks,
                   results>>

SpecSize == InitSize /\ [][ResolveFileSize]_vars

(* determineMimeType on its own, called as processDownload calls it: with the
   request, the response's Content-Type and the request's FullPath. Each path
   is listed with the type of its extension and each file with the type of
   its content ("": none), written down by hand. *)
ContentTypes ==
    {"", octetStream, "image/jpeg", "text/html; charset=utf-8"}

MimeHints == {"", "video/mp4", octetStream}

FullPaths ==
    { [text |-> <<"/", "d", "/", "a", ".", "p", "n", "g">>, type |-> "image/png"],
      [text |-> <<"/", "d", "/", "a", ".", "P", "N", "G">>, type |-> "image/png"],
      [text |-> <<"/", "d", "/", "a", ".", "p", "n", "g", ".", "p", "d", "f">>,
       type |-> "application/pdf"],
      [text |-> <<"/", "d", "/", "a">>, type |-> ""],
      [text |-> <<"/", "d", ".", "p", "n", "g", "/", "a">>, type |-> ""],
      [text |-> <<"/", "d", "/", "a", ".", "z", "z">>, type |-> ""],
      [text |-> <<"/", "d", "/", "a", ".">>, type |-> ""] }

FileContents ==
    { [bytes |-> <<>>, type |-> "text/plain; charset=utf-8"],
      [bytes |-> <<"h", "i">>, type |-> "text/plain; charset=utf-8"],
      [bytes |-> <<"\\x89", "P", "N", "G", "\\x00">>, type |-> "image/png"],
      [bytes |-> <<"%", "P", "D", "F", "-", "1">>, type |-> "application/pdf"],
      [bytes |-> <<"\\x00", "\\x01">>, type |-> octetStream] }

MimeCalls ==
    { [req |-> [MimeType |-> hint, FullPath |-> p.text],
       respContentType |-> ct, file |-> f.bytes] :
        hint \in MimeHints, p \in FullPaths, ct \in ContentTypes,
        f \in FileContents }

InitMime ==
    /\ InitEngine
    /\ maxWorkers = 1
    /\ ~enableOverwrite
    /\ NoSizeCall
    /\ mimeArgs \in MimeCalls
    /\ mimeType = <<>>

\* processDownload: MimeType: determineMimeType(req, respContentType, req.FullPath)
DetermineMimeType ==
    /\ mimeType = <<>>
    /\ mimeType' = <<determineMimeType(mimeArgs.req, mimeArgs.respContentType,
                                       mimeArgs.req.FullPath, mimeArgs.file)>>
    /\ UNCHANGED <<maxWorkers, queueCap, enableOverwrite, sizeVars, mimeArgs,
                   started, stopChan, stopReturned, wg, queue, epc, workerVars,
                   monitorVars, fsVars, now, faults, runningAtStop, callbacks,
                   results>>

SpecMime == InitMime /\ [][DetermineMimeType]_vars

\* the batch engine together with progress reports for unregistered IDs
NextProgress ==
    \/ Start
    \/ EnqueueManyAdd
    \/ EnqueueManyReject
    \/ EnqueueManyPush
    \/ \E w \in WorkerIds : WorkerDequeue(w)
    \/ \E w \in WorkerIds : Process(w)
    \/ \E w \in WorkerIds : Fault(w)
    \/ \E id \in Requests, done \in {1, BodyLen}, tot \in {-1, BodyLen} :
          UpdateUnknown(id, done, tot)

SpecProgress == InitDefault /\ [][NextProgress]_vars

(* The program when Start is called and Stop is not. The Go scheduler runs
   every goroutine that can take a step, so a worker that can receive from the
   queue or go on with its download does so, and every external step (HTTP
   GET, disk write, callback) returns. Faults are the environment's: nothing
   obliges them to happen. *)
NextLive ==
    \/ Caller
    \/ \E w \in WorkerIds : WorkerDequeue(w)
    \/ \E w \in WorkerIds : Process(w)
    \/ \E w \in WorkerIds : Fault(w)

Fairness ==
    /\ WF_vars(Start)
    /\ \A w \in WorkerIds : WF_vars(WorkerDequeue(w) \/ Process(w))

SpecLive == InitDefault /\ [][NextLive]_vars /\ Fairness

(* ------------------------------- claims -------------------------------- *)

InProgress == {j \in DOMAIN tasks : tasks[j].Status = StatusInProgress}

\* the requests a worker has taken from the queue
Dequeued == {j \in Jobs : epc[j] = "queued" /\ \A k \in 1..Len(queue) : queue[k] # j}

C2_AtMostWInProgress == Cardinality(InProgress) <= maxWorkers

\* C2 witness: every worker of the pool has a task in_progress while a further
\* request waits in the queue.
C2_Witness ==
    /\ Cardinality(InProgress) = maxWorkers
    /\ queue # <<>>

\* C3 (as claimed): whenever a file exists at a final path, it holds the whole
\* body of one of the requests for that path.
C3_AtomicCommit ==
    \A p \in Paths :
        dir[Final(p)] # 0 =>
            \E j \in Jobs : FullPath(j) = p /\ inode[dir[Final(p)]] = Body(j)

\* C4 (as claimed): once Stop has returned, the event-signal channel is closed.
C4_StopClosesSignal == stopReturned => eventClosed

\* C5 (as claimed): when a mutation has happened since the observer's last
\* receive, the next receive can complete: a signal is buffered or the channel
\* is closed.
C5_ChangeNotMissed == sinceRecv > 0 => (eventSignal > 0 \/ eventClosed)

\* C6: the event signal never buffers more than one signal, and a mutation that
\* finds a signal buffered leaves exactly one buffered.
C6_Coalescing ==
    /\ [](eventSignal <= 1)
    /\ [][(eventSignal = 1 /\ tasks' # tasks) => eventSignal' = 1]_vars

\* C6 witness: two or more mutations since the observer's last receive, one
\* signal buffered.
C6_Witness == sinceRecv = 2 /\ eventSignal = 1

\* C7 (as claimed): once stopChan is closed, no worker takes a request from the
\* queue.
C7_NoDequeueAfterStop ==
    [][stopChan = "closed" =>
          \A w \in Workers : wpc[w] = "select" => wpc'[w] # "process"]_vars

\* C8: when Stop has returned, every worker has exited, no task is in_progress,
\* and every request a worker took from the queue (so every request that was
\* in a pipeline when Stop was called) is completed or failed and has had its
\* callback.
C8_StopWaits ==
    stopReturned =>
        /\ \A w \in Workers : wpc[w] = "exited"
        /\ InProgress = {}
        /\ \A j \in Dequeued :
              /\ j \in DOMAIN tasks
              /\ Terminal(tasks[j].Status)
              /\ callbacks[j].onComplete + callbacks[j].onError = 1

\* C8 witness: Stop was called while a pipeline was running, and has returned.
C8_Witness == stopReturned /\ runningAtStop /\ Dequeued # {}

\* C9: in every snapshot, total is the sum of the four status counts and the
\* number of tasks listed.
C9_CountsAddUp ==
    \A s \in Snapshots :
        /\ s.Count.Total = s.Count.Pending + s.Count.InProgress
                           + s.Count.Completed + s.Count.Failed
        /\ s.Count.Total = Len(s.Tasks)

\* C9 witness: a snapshot that lists every request, with tasks in different
\* states.
C9_Witness ==
    \E s \in Snapshots :
        /\ s.Count.Total = MaxJobs
        /\ s.Count.Completed >= 1
        /\ s.Count.Failed + s.Count.InProgress + s.Count.Pending >= 1

\* the pending tasks of a snapshot, as indices into its task list
PendingOf(s) == {i \in 1..Len(s.Tasks) : s.Tasks[i].Status = StatusPending}

\* positions 1..k among the k pending tasks, without duplicates, ordered by
\* enqueue time; 0 for every other task
RankedByTime(s) ==
    /\ \A i \in 1..Len(s.Tasks) :
          i \notin PendingOf(s) => s.Tasks[i].QueuePosition = 0
    /\ {s.Tasks[i].QueuePosition : i \in PendingOf(s)} = 1..Cardinality(PendingOf(s))
    /\ \A a, b \in PendingOf(s) :
          a # b => s.Tasks[a].QueuePosition # s.Tasks[b].QueuePosition
    /\ \A a, b \in PendingOf(s) :
          s.Tasks[a].EnqueuedAt < s.Tasks[b].EnqueuedAt
              => s.Tasks[a].QueuePosition < s.Tasks[b].QueuePosition

\* C10 (as claimed): positions rank the pending tasks by enqueue time, and
\* requests enqueued one after the other are ranked in that order (IDs are
\* numbered in the order of registration).
C10_FifoByEnqueueOrder ==
    \A s \in Snapshots :
        /\ RankedByTime(s)
        /\ \A a, b \in PendingOf(s) :
              s.Tasks[a].ID < s.Tasks[b].ID
                  => s.Tasks[a].QueuePosition < s.Tasks[b].QueuePosition

\* C10 (amended): positions rank the pending tasks by enqueue time; requests
\* enqueued one after the other at different clock readings are ranked in
\* that order.
C10_FifoByEnqueueTime ==
    \A s \in Snapshots :
        /\ RankedByTime(s)
        /\ \A a, b \in PendingOf(s) :
              (s.Tasks[a].ID < s.Tasks[b].ID
               /\ s.Tasks[a].EnqueuedAt # s.Tasks[b].EnqueuedAt)
                  => s.Tasks[a].QueuePosition < s.Tasks[b].QueuePosition

\* C10 witness: every request is registered and pending, before any worker
\* runs, at different clock readings, and request j has position j.
C10_Witness ==
    /\ ~started
    /\ DOMAIN tasks = Jobs
    /\ \A a, b \in Jobs : a < b => tasks[a].EnqueuedAt < tasks[b].EnqueuedAt
    /\ \A s \in Snapshots :
          \A i \in 1..Len(s.Tasks) : s.Tasks[i].QueuePosition = s.Tasks[i].ID

\* snapshot s lists exactly one task with ID j, pending, at a position >= 1
ShowsPending(s, j) ==
    /\ Cardinality({i \in 1..Len(s.Tasks) : s.Tasks[i].ID = j}) = 1
    /\ \A i \in 1..Len(s.Tasks) :
          s.Tasks[i].ID = j =>
              s.Tasks[i].Status = StatusPending /\ s.Tasks[i].QueuePosition >= 1

\* C11 (as claimed): every snapshot taken after Enqueue of a valid request
\* has returned shows exactly one task for its ID, pending, with
\* queuePosition >= 1.
C11_PendingAfterEnqueue ==
    \A j \in Jobs : epc[j] = "queued" => \A s \in Snapshots : ShowsPending(s, j)

\* C11 (amended): every snapshot taken after Enqueue of a valid request has
\* returned, and before a worker has taken the request from the queue, shows
\* exactly one task for its ID, pending, with queuePosition >= 1.
C11_PendingUntilDequeued ==
    \A j \in Jobs :
        (epc[j] = "queued" /\ j \notin Dequeued)
            => \A s \in Snapshots : ShowsPending(s, j)

\* C11 witness: the workers run, an earlier request is no longer pending, and
\* a later request whose Enqueue has returned still waits in the queue.
C11_Witness ==
    /\ started
    /\ \E i, j \in Jobs :
          /\ i < j
          /\ i \in Dequeued
          /\ tasks[i].Status # StatusPending
          /\ epc[j] = "queued"
          /\ j \notin Dequeued
          /\ \A s \in Snapshots : ShowsPending(s, j)

\* C12: when Enqueue of request a returned before Enqueue of request b was
\* called (EnqueueMany submits the requests in the order of their IDs) and b
\* has been taken from the queue by a worker, a has been taken from it too,
\* whatever the number of workers.
C12_DequeuedInSubmissionOrder ==
    \A a, b \in Jobs :
        (a < b /\ epc[a] = "queued" /\ b \in Dequeued) => a \in Dequeued

\* C12 witness: two requests submitted one after the other have both been
\* dequeued, and the later one has finished while the earlier one is still
\* being downloaded.
C12_Witness ==
    \E a, b \in Jobs :
        /\ a < b
        /\ a \in Dequeued
        /\ b \in Dequeued
        /\ tasks[a].Status = StatusInProgress
        /\ Terminal(tasks[b].Status)

\* the workers that hold request j (dequeued it and have not yet returned to
\* the select)
Holders(j) == {w \in Workers : cur[w] = j}

\* C13: no request is held by two workers; a dequeued request that its worker
\* has let go has had exactly one callback; onComplete was invoked at most
\* once and only for a task marked completed; onError was invoked at most
\* once and only for a task marked failed with a non-empty message, which is
\* the error passed to onError; never both.
C13_ExactlyOneOutcome ==
    \A j \in Jobs :
        /\ Cardinality(Holders(j)) <= 1
        /\ callbacks[j].onComplete + callbacks[j].onError <= 1
        /\ (j \in Dequeued /\ Holders(j) = {})
              => callbacks[j].onComplete + callbacks[j].onError = 1
        /\ callbacks[j].onComplete + callbacks[j].onError = 1
              => (j \in Dequeued /\ Holders(j) = {})
        /\ callbacks[j].onComplete = 1 => tasks[j].Status = StatusCompleted
        /\ callbacks[j].onError = 1
              => /\ tasks[j].Status = StatusFailed
                 /\ tasks[j].Error # ""
                 /\ callbacks[j].err = tasks[j].Error
        /\ \A w \in Holders(j) :
              /\ wpc[w] = "onComplete" => tasks[j].Status = StatusCompleted
              /\ wpc[w] = "onError"
                    => /\ tasks[j].Status = StatusFailed
                       /\ tasks[j].Error # ""
                       /\ err[w] = tasks[j].Error

\* C13 witness: one request has completed and onComplete was invoked for it,
\* another has failed and onError was invoked with its error.
C13_Witness ==
    \E i, j \in Jobs :
        /\ callbacks[i].onComplete = 1
        /\ callbacks[i].onError = 0
        /\ tasks[i].Status = StatusCompleted
        /\ callbacks[j].onError = 1
        /\ callbacks[j].onComplete = 0
        /\ tasks[j].Status = StatusFailed
        /\ callbacks[j].err = tasks[j].Error
        /\ callbacks[j].err # ""

\* C14: a step in which Enqueue is called with a request that fails
\* validation returns Queued = false with the error and changes neither the
\* registry (no task for that ID), nor the queue, nor the change signal.
C14_RejectHasNoEffect ==
    [][\A j \in Requests :
          (epc[j] = "new" /\ epc'[j] # "new" /\ validateRequest(j) # "")
              => /\ epc'[j] = "rejected"
                 /\ tasks' = tasks
                 /\ j \notin DOMAIN tasks'
                 /\ queue' = queue
                 /\ eventSignal' = eventSignal
                 /\ eventClosed' = eventClosed
                 /\ Len(results') = Len(results) + 1
                 /\ ~results'[Len(results')].Queued
                 /\ results'[Len(results')].Error = validateRequest(j)
                 /\ \A k \in 1..Len(results) : results'[k] = results[k]]_vars

\* C14 witness: the request whose destination exists was rejected with an
\* error and is not in the registry; a request was rejected while the
\* registry holds the task of another one.
C14_Witness ==
    /\ epc[ExistingRequest] = "rejected"
    /\ \E j \in Jobs :
          /\ epc[j] = "rejected"
          /\ j \notin DOMAIN tasks
          /\ DOMAIN tasks # {}
          /\ \E k \in 1..Len(results) :
                /\ reqs[k] = j
                /\ ~results[k].Queued
                /\ results[k].Error # ""

\* C15: a step in which Enqueue validates a request rejects it exactly when a
\* file exists at its FullPath and overwrite mode is disabled; with overwrite
\* mode enabled a request whose destination exists is admitted.
C15_RejectIffExistsAndNoOverwrite ==
    [][\A j \in Jobs :
          (epc[j] = "new" /\ epc'[j] # "new")
              => (epc'[j] = "rejected"
                    <=> (checkFileExists(Final(FullPath(j))) /\ ~enableOverwrite))]_vars

\* the workers that have not returned from Fetcher.worker
LiveWorkers == {w \in Workers : wpc[w] # "exited"}

\* C16: from Start until Stop is called every one of the maxWorkers workers
\* is live, whatever has failed: none has returned from its loop and the
\* program has not panicked.
C16_FailureKeepsPool ==
    (started /\ stopChan = "open")
        => /\ Cardinality(LiveWorkers) = maxWorkers
           /\ \A w \in Workers : wpc[w] # "exited"
           /\ ~panicked

\* C16 witness: with a single worker, one request has failed at the transfer
\* step and the worker has since dequeued a later request and is downloading
\* it; Stop has not been called.
C16_Witness ==
    /\ maxWorkers = 1
    /\ stopChan = "open"
    /\ Cardinality(LiveWorkers) = 1
    /\ \E i, j \in DOMAIN tasks :
          /\ i < j
          /\ tasks[i].Status = StatusFailed
          /\ tasks[i].Error = "copy"
          /\ callbacks[i].onError = 1
          /\ \E w \in Workers : cur[w] = j /\ tasks[j].Status = StatusInProgress

\* C17: every snapshot shows a completed task with queuePosition 0 and, when
\* its totalBytes is known (> 0), with doneBytes = totalBytes; the step that
\* marks a task completed whose totalBytes is unknown (<= 0) leaves its
\* doneBytes as the last progress update set it.
C17_CompletedTask ==
    /\ [](\A s \in Snapshots :
            \A i \in 1..Len(s.Tasks) :
                s.Tasks[i].Status = StatusCompleted
                    => /\ s.Tasks[i].QueuePosition = 0
                       /\ s.Tasks[i].TotalBytes > 0
                             => s.Tasks[i].DoneBytes = s.Tasks[i].TotalBytes)
    /\ [][\A j \in DOMAIN tasks :
              (tasks[j].Status # StatusCompleted
               /\ tasks'[j].Status = StatusCompleted
               /\ tasks[j].TotalBytes <= 0)
                  => (tasks'[j].DoneBytes = tasks[j].DoneBytes
                      /\ tasks'[j].TotalBytes = tasks[j].TotalBytes)]_vars

\* C17 witness: a snapshot shows a completed task of unknown size with the
\* bytes counted by the last update, and one shows a completed task of known
\* size with doneBytes = totalBytes.
C17_Witness ==
    /\ \E s \in Snapshots :
          \E i \in 1..Len(s.Tasks) :
              /\ s.Tasks[i].Status = StatusCompleted
              /\ s.Tasks[i].TotalBytes = -1
              /\ s.Tasks[i].DoneBytes = BodyLen
              /\ s.Tasks[i].QueuePosition = 0
    /\ \E s \in Snapshots :
          \E i \in 1..Len(s.Tasks) :
              /\ s.Tasks[i].Status = StatusCompleted
              /\ s.Tasks[i].TotalBytes = BodyLen
              /\ s.Tasks[i].DoneBytes = BodyLen

\* C18: with overwrite disabled, once the transfer of a request has failed
\* with a write error and no file is at the final path, a step in which
\* Enqueue validates another request for the same destination rejects it.
C18_ConflictAfterWriteFailure ==
    [][\A i, j \in Jobs :
          (/\ i # j
           /\ FullPath(i) = FullPath(j)
           /\ ~enableOverwrite
           /\ i \in DOMAIN tasks
           /\ tasks[i].Status = StatusFailed
           /\ tasks[i].Error = "copy"
           /\ ~checkFileExists(Final(FullPath(j)))
           /\ epc[j] = "new"
           /\ epc'[j] # "new")
              => epc'[j] = "rejected"]_vars

\* request j has reached a terminal state and its callback has been invoked
Reported(j) ==
    /\ j \in Dequeued
    /\ j \in DOMAIN tasks
    /\ \/ tasks[j].Status = StatusCompleted /\ callbacks[j].onComplete = 1
       \/ tasks[j].Status = StatusFailed /\ callbacks[j].onError = 1

\* C19: when Start is called and Stop is not, every request for which Enqueue
\* returned Queued = true is eventually dequeued, marked completed or failed,
\* and reported through onComplete or onError.
C19_AdmittedIsReported ==
    \A j \in Jobs : (epc[j] = "queued") ~> Reported(j)

\* C19 witness: every request was admitted and each has been reported, one of
\* them as failed.
C19_Witness ==
    /\ started
    /\ \A j \in Jobs : epc[j] = "queued" /\ Reported(j)
    /\ \E j \in Jobs : tasks[j].Status = StatusFailed

\* the requests of the EnqueueMany call that Enqueue has dealt with
Handled == {j \in Requests : epc[j] \in {"queued", "rejected"}}

\* C20: EnqueueMany gathers one result per request it has dealt with, in the
\* order of the input: results[i] is the outcome of reqs[i], Queued with no
\* error when the request was registered and queued, not Queued with the
\* validation error when it was rejected; after a rejection the call goes on
\* to validate the next request.
C20_EnqueueManyInOrder ==
    /\ Len(results) = Cardinality(Handled)
    /\ Handled = {reqs[i] : i \in 1..Len(results)}
    /\ \A i \in 1..Len(results) :
          /\ results[i].Queued <=> epc[reqs[i]] = "queued"
          /\ results[i].Queued =>
                (results[i].Error = "" /\ reqs[i] \in DOMAIN tasks)
          /\ ~results[i].Queued =>
                (results[i].Error # "" /\ reqs[i] \notin DOMAIN tasks)
    /\ (/\ InLoop
        /\ Len(results) > 0
        /\ ~results[Len(results)].Queued
        /\ epc[reqs[Len(results) + 1]] = "new")
          => ENABLED (EnqueueManyAdd \/ EnqueueManyReject)

\* C20 witness: EnqueueMany has gathered one result for every request; the
\* first request was rejected and a later one was registered and queued.
C20_Witness ==
    /\ Len(results) = Len(reqs)
    /\ ~results[1].Queued
    /\ \E j \in 2..Len(results) :
          /\ results[j].Queued
          /\ epc[reqs[j]] = "queued"
          /\ reqs[j] \in DOMAIN tasks

\* C21: every EnqueueResult carries the request as validateRequest resolved
\* it (its ID and its FullPath), whether it was queued or rejected.
C21_ResultCarriesRequest ==
    \A i \in 1..Len(results) : results[i].Request = resolvedRequest(reqs[i])

\* C22: a call of TaskMonitor.close after the first one does not panic, posts
\* no signal and leaves the registry alone, whether the channel is open and
\* empty, holds a signal, or is closed; once closed the channel stays closed.
C22_CloseIsIdempotent ==
    [][(closes >= 1 /\ closes' = closes + 1)
          => /\ panicked' = panicked
             /\ eventSignal' <= eventSignal
             /\ eventClosed => (eventClosed' /\ eventSignal' = eventSignal)
             /\ tasks' = tasks]_vars

\* C22 witness: TaskMonitor.close has been called at least three times; the
\* channel is closed and nothing has panicked.
C22_Witness ==
    /\ closes >= 3
    /\ eventClosed
    /\ ~panicked

\* C23: no goroutine ever panics: in every interleaving of Enqueue calls,
\* worker updates and one Stop call, no mutation of the registry runs
\* signalEvent on the closed channel.
C23_NoSignalAfterClose == ~panicked

\* C24: with overwrite disabled, no two requests that resolve to the same
\* FullPath are both completed.
C24_OneCompletionPerPath ==
    ~enableOverwrite =>
        \A i, j \in DOMAIN tasks :
            (i # j /\ FullPath(i) = FullPath(j))
                => ~(tasks[i].Status = StatusCompleted
                     /\ tasks[j].Status = StatusCompleted)

\* C25: in a step in which a worker receives a request from the queue, every
\* snapshot of that moment shows the request as the pending task with
\* queuePosition 1.
C25_DequeuedIsFirst ==
    [][\A w \in WorkerIds :
          (w \in Workers /\ wpc[w] = "select" /\ wpc'[w] = "process")
              => \A s \in Snapshots :
                    \E i \in 1..Len(s.Tasks) :
                        /\ s.Tasks[i].ID = cur'[w]
                        /\ s.Tasks[i].Status = StatusPending
                        /\ s.Tasks[i].QueuePosition = 1]_vars

\* C26: the queue never holds more requests than its capacity; the Enqueue
\* of a registered request returns only in a step that finds a free slot and
\* puts the request at the end of the queue, so while the queue is full the
\* call stays blocked, its request registered and not dropped.
C26_Backpressure ==
    /\ [](Len(queue) <= queueCap)
    /\ [](\A j \in Jobs : epc[j] = "registered" => j \in DOMAIN tasks)
    /\ [][\A j \in Jobs :
              (epc[j] = "registered" /\ epc'[j] # "registered")
                  => /\ epc'[j] = "queued"
                     /\ Len(queue) < queueCap
                     /\ queue' = Append(queue, j)]_vars

\* C26 witness: the workers run, the queue is full, and an Enqueue call is
\* blocked with its request registered.
C26_Witness ==
    /\ started
    /\ Len(queue) = queueCap
    /\ \E j \in Jobs : epc[j] = "registered" /\ tasks[j].Status = StatusPending

HTTPErrors == {statusError(code) : code \in StatusCodes}
codeOf(e) == CHOOSE code \in StatusCodes : statusError(code) = e

\* a response with this status code reached the status check of worker w
Responded(w, code) ==
    /\ w \in Workers
    /\ wpc[w] = "get"
    /\ \/ statusOK(code) /\ GetCreate(w)
       \/ GetStatus(w, code)

(* C29, as stated: a job fails with the status error exactly when the
   response status is a non-success code, so no task carries the status
   error of a success code (2xx). *)
C29_HTTPErrorOnlyForNonSuccess ==
    \A i \in DOMAIN tasks :
        tasks[i].Error \in HTTPErrors => codeOf(tasks[i].Error) \notin 200..299

(* C29, amended: a job fails with the status error exactly when the response
   status is not 200. A 200 response takes the worker to the transfer step;
   any other code, the other 2xx codes included, fails the task with a
   message carrying the code and sends the worker to the error callback; no
   task carries the status error of code 200. *)
C29_HTTPErrorIffNotOK ==
    /\ [](\A i \in DOMAIN tasks :
            tasks[i].Error \in HTTPErrors
                => /\ codeOf(tasks[i].Error) # StatusOK
                   /\ tasks[i].Status = StatusFailed)
    /\ [][\A w \in WorkerIds, code \in StatusCodes :
            Responded(w, code)
                => IF code = StatusOK
                   THEN /\ wpc'[w] = "copy"
                        /\ tasks' = tasks
                   ELSE /\ wpc'[w] = "onError"
                        /\ err'[w] = statusError(code)
                        /\ tasks'[cur[w]].Status = StatusFailed
                        /\ tasks'[cur[w]].Error = statusError(code)
                        /\ dir' = dir]_vars

\* a 204 response failed a task, its error callback ran with that message,
\* and no file was created for it
C29_Witness ==
    \E i \in DOMAIN tasks :
        /\ tasks[i].Status = StatusFailed
        /\ tasks[i].Error = statusError(204)
        /\ callbacks[i].onError = 1
        /\ callbacks[i].err = statusError(204)
        /\ dir[Tmp(FullPath(i))] = 0

\* the size a header value stands for, from the tables of the input sets
Meaning(table, text) == (CHOOSE e \in table : e.text = text).value

\* the first positive element of a sequence of candidates, or -1
FirstPositive(c) ==
    IF \E i \in 1..Len(c) : c[i] > 0
    THEN c[CHOOSE i \in 1..Len(c) : c[i] > 0 /\ \A k \in 1..(i - 1) : c[k] <= 0]
    ELSE -1

(* C30: resolveFileSize returns the first positive value among the declared
   content length, the Content-Length header and the total after '/' in the
   Content-Range header, in this order, and -1 when none of them yields a
   positive number; the result is always a size or -1, never an error. *)
C30_FirstPositiveSize ==
    size # <<>>
        => /\ size[1] =
                FirstPositive(<<resp.ContentLength,
                                Meaning(ContentLengthHeaders, resp.ContentLengthHeader),
                                Meaning(ContentRanges, resp.ContentRange)>>)
           /\ size[1] = -1 \/ size[1] > 0

\* no declared length, a Content-Length header that is not a number, and a
\* Content-Range of "bytes */7": the total of the range is returned
C30_Witness ==
    /\ size = <<7>>
    /\ resp.ContentLength = -1
    /\ resp.ContentLengthHeader = <<"1", "x">>
    /\ resp.ContentRange = <<"b", "y", "t", "e", "s", " ", "*", "/", "7">>

\* the type the tables give for a path's extension and for a file's content
ExtensionType(path) == (CHOOSE p \in FullPaths : p.text = path).type
SniffedType(bytes) == (CHOOSE f \in FileContents : f.bytes = bytes).type

\* the first non-empty string of a sequence of candidates
FirstMatch(c) == c[CHOOSE i \in 1..Len(c) : c[i] # "" /\ \A k \in 1..(i - 1) : c[k] = ""]

(* C31: the resolved MIME type is the first match among (a) the response
   content type when it is non-empty and not application/octet-stream, (b) the
   request's MimeType hint, (c) the type of the extension of the final file
   name, (d) the type sniffed from the file's content; with no hint, a
   response type of application/octet-stream and a name ending in .png the
   result is image/png. *)
C31_MimeFirstMatchWins ==
    mimeType # <<>>
        => /\ mimeType[1] =
                FirstMatch(<<IF mimeArgs.respContentType = octetStream
                             THEN "" ELSE mimeArgs.respContentType,
                             mimeArgs.req.MimeType,
                             ExtensionType(mimeArgs.req.FullPath),
                             SniffedType(mimeArgs.file)>>)
           /\ mimeType[1] # ""
           /\ (/\ mimeArgs.req.MimeType = ""
               /\ mimeArgs.respContentType = octetStream
               /\ mimeArgs.req.FullPath = <<"/", "d", "/", "a", ".", "p", "n", "g">>)
                  => mimeType[1] = "image/png"

\* no hint, the server says application/octet-stream, the name ends in .png
\* and the content looks like a PDF: the extension decides
C31_Witness ==
    /\ mimeType = <<"image/png">>
    /\ mimeArgs.req.MimeType = ""
    /\ mimeArgs.respContentType = octetStream
    /\ mimeArgs.req.FullPath = <<"/", "d", "/", "a", ".", "p", "n", "g">>
    /\ mimeArgs.file = <<"%", "P", "D", "F", "-", "1">>

====
